---- MODULE Spec2Model ----
(***************************************************************************)
(* Model of Native/CompositorCapture/CompositorCapture.cpp in its fallback *)
(* build (TRACTUS_HAS_VIZ_CAPTURER == 0): the C entry points, the session  *)
(* implementation's Start/Stop, the worker thread running RunFallbackLoop  *)
(* and the pure helpers.  Every atomic access of the code is one step; the *)
(* non-atomic members (capture_thread_, next_frame_token_) are read and    *)
(* written in separate steps so that the interleavings the code allows are *)
(* the interleavings of the model.                                         *)
(***************************************************************************)
EXTENDS Integers, Sequences, FiniteSets, TLC

(* ---- bounds ---- *)
NumCallers == 2
MaxCalls == 3
MaxFrames == 3
MaxRate == 41
MaxLate == 2

(* ---- program constants ---- *)
DefaultIntervalUs == 16667
BytesPerPixel == 4

\* every compare-and-set a Start wins after the first follows a Stop that
\* cleared the flag, so MaxCalls calls create at most this many threads
Workers == 1..((MaxCalls + 1) \div 2)
Callers == (Cardinality(Workers) + 1)..(Cardinality(Workers) + NumCallers)
Threads == Workers \cup Callers

NoThread == 0

TypicalConfig ==
  [width |-> 2, height |-> 1, frame_rate_numerator |-> 30, frame_rate_denominator |-> 1]

\* int32_t
Int32Max == 2147483647

Configs ==
  { TypicalConfig,
    [width |-> 0, height |-> 0, frame_rate_numerator |-> 0, frame_rate_denominator |-> 1],
    [width |-> 2, height |-> 0, frame_rate_numerator |-> 30, frame_rate_denominator |-> 1],
    [width |-> -1, height |-> 1, frame_rate_numerator |-> 30, frame_rate_denominator |-> 1],
    [width |-> (Int32Max \div BytesPerPixel) + 1, height |-> 0,
     frame_rate_numerator |-> 30, frame_rate_denominator |-> 1] }

NoConfig == [width |-> 0, height |-> 0, frame_rate_numerator |-> 0, frame_rate_denominator |-> 0]

VARIABLES
  session,            \* "none" | "live" | "destroyed": the CompositorCaptureSession handle
  config_,            \* CompositorCaptureSessionImpl::config_
  callback_,          \* TRUE iff callback_ is non-null
  started_,           \* bool started_
  running_,           \* std::atomic<bool> running_
  capture_thread_,    \* NoThread when not joinable, else the worker it refers to
  staging_buffer_,    \* size of the staging vector
  next_frame_token_,  \* uint64_t next_frame_token_
  wpc,                \* position of each worker thread in RunFallbackLoop
  reg,                \* worker's register holding the value read by ++next_frame_token_
  frame,              \* worker's frame descriptor under construction
  interval,           \* worker's local `interval`
  stride,             \* worker's local `stride`
  pc,                 \* position of each thread inside an entry point
  target,             \* the thread a join() in progress waits for
  abort,              \* "none", or why the process was terminated
  delivered,          \* frames handed to the sink, in invocation order
  bufAssigns,         \* number of staging_buffer_.assign calls made
  stopFlips,          \* number of StopFallbackLoop exchanges that returned true
  startedBefore,      \* per Stop call in progress: workers created before it began
  mustBeDone,         \* workers created before some Stop call that has returned
  overlapped,         \* Stop calls in progress during which a Start was called
  quiesced,           \* no Start was called since the session was created, or since
                      \* the call of a Stop/Destroy that has returned
  signalled,          \* workers that were alive when a Stop cleared running_
  late,               \* per worker: frames delivered after it was signalled
  idleStops,          \* 1 once a Stop call was made after an earlier Stop had returned
  returned,           \* what cc_create_session last returned: "unset", "null" or "session"
  freed_access,       \* TRUE once an entry point has read or deleted the freed session object
  released,           \* 1 once ReleaseFrame was called, with a token not delivered, while a worker was alive
  browser_host,       \* frame production of the CefBrowserHost passed to cc_create_session: "automatic" or "manual"
  now,                \* the steady clock, in microseconds
  monotonic,          \* worker's local monotonic: the clock read at the top of its iteration
  next_fire,          \* worker's local next_fire
  wakes,              \* the clock values the iterations of a timed worker began at
  deadlines,          \* the deadlines the iterations of a timed worker slept until
  calls               \* number of entry-point calls made after cc_create_session

vars == << session, config_, callback_, started_, running_, capture_thread_,
           staging_buffer_, next_frame_token_, wpc, reg, frame, interval, stride,
           pc, target, abort, delivered, bufAssigns, stopFlips, startedBefore,
           mustBeDone, overlapped, quiesced, signalled, late, idleStops,
           returned, freed_access,
           released,
           browser_host,
           now,
           monotonic,
           next_fire,
           wakes,
           deadlines, calls >>

(***************************************************************************)
(* IEEE-754 binary64 arithmetic, as far as CalculateFrameInterval uses it: *)
(* a positive double is [exp, man] with man a sequence of MantissaBits     *)
(* bits, most significant first and man[1] = 1, of value                   *)
(* man * 2^(exp - (MantissaBits - 1)).  Division and multiplication round  *)
(* to nearest, ties to even; the cast to int64_t truncates.                *)
(***************************************************************************)
MantissaBits == 53
MillionOdd == 15625      \* 1'000'000.0 == 15625 * 2^6, exactly representable
MillionShift == 6
ChunkBits == 6           \* long division produces the quotient 6 bits at a time
LimbBits == 13           \* multiplication works on limbs of 13 bits

RECURSIVE BitsToInt(_)
BitsToInt(bits) ==
  IF Len(bits) = 0 THEN 0
  ELSE IF Len(bits) = 1 THEN bits[1]
  ELSE LET h == Len(bits) \div 2
       IN BitsToInt(SubSeq(bits, 1, h)) * 2^(Len(bits) - h)
            + BitsToInt(SubSeq(bits, h + 1, Len(bits)))

RECURSIVE BitLength(_)
BitLength(n) == IF n = 0 THEN 0 ELSE 1 + BitLength(n \div 2)

\* the low `len` bits of n, most significant first
FixedBits(n, len) == [i \in 1..len |-> (n \div 2^(len - i)) % 2]

IntToBits(n) == FixedBits(n, BitLength(n))

\* bits + 1; the result is one bit longer when every bit was 1
Increment(bits) ==
  LET zeros == {i \in 1..Len(bits) : bits[i] = 0}
  IN IF zeros = {}
     THEN [i \in 1..(Len(bits) + 1) |-> IF i = 1 THEN 1 ELSE 0]
     ELSE LET p == CHOOSE i \in zeros : \A j \in zeros : j <= i
          IN [i \in 1..Len(bits) |-> IF i < p THEN bits[i] ELSE IF i = p THEN 1 ELSE 0]

\* round-to-nearest-even of a normalised significand given its guard bit
\* and whether any lower bit is set (sticky)
RoundNearestEven(exp, man, guard, sticky) ==
  IF guard = 1 /\ (sticky \/ man[Len(man)] = 1)
  THEN LET up == Increment(man)
       IN IF Len(up) > Len(man)
          THEN [exp |-> exp + 1, man |-> SubSeq(up, 1, Len(man))]
          ELSE [exp |-> exp, man |-> up]
  ELSE [exp |-> exp, man |-> man]

RECURSIVE ScaleUp(_, _, _)
\* largest k with x * 2^k <= lim, as <<k, x * 2^k>>   (x <= lim)
ScaleUp(x, lim, k) ==
  IF 2 * x <= lim THEN ScaleUp(2 * x, lim, k + 1) ELSE << k, x >>

RECURSIVE ScaleTo(_, _, _)
\* smallest k with x * 2^k >= lim, as <<k, x * 2^k>>
ScaleTo(x, lim, k) ==
  IF x >= lim THEN << k, x >> ELSE ScaleTo(2 * x, lim, k + 1)

RECURSIVE QuotientChunks(_, _, _)
\* the next k chunks of ChunkBits bits of the binary expansion of r / b
\* (0 <= r < b), followed by the remainder left after them
QuotientChunks(r, b, k) ==
  IF k = 0 THEN << r >>
  ELSE LET s == r * 2^ChunkBits
       IN << s \div b >> \o QuotientChunks(s % b, b, k - 1)

\* static_cast<double>(x) / static_cast<double>(y) for integers x, y > 0
\* (the conversions of int32 values are exact)
DoubleDivide(x, y) ==
  LET up     == IF x >= y THEN ScaleUp(y, x, 0) ELSE << 0, y >>
      down   == IF x >= y THEN << 0, x >> ELSE ScaleTo(x, y, 0)
      a      == down[2]
      b      == up[2]
      exp    == up[1] - down[1]
      nchunk == (MantissaBits + ChunkBits) \div ChunkBits
      chunks == QuotientChunks(a - b, b, nchunk)
      frac   == [i \in 1..(nchunk * ChunkBits) |->
                   (chunks[((i - 1) \div ChunkBits) + 1]
                      \div 2^(ChunkBits - 1 - ((i - 1) % ChunkBits))) % 2]
      man    == << 1 >> \o SubSeq(frac, 1, MantissaBits - 1)
      sticky == \/ chunks[nchunk + 1] # 0
                \/ \E i \in (MantissaBits + 1)..(nchunk * ChunkBits) : frac[i] = 1
  IN RoundNearestEven(exp, man, frac[MantissaBits], sticky)

RECURSIVE TimesSmall(_, _, _)
\* limbs * c + carry for a little-endian sequence of LimbBits-bit limbs: the
\* limbs of the product, least significant first, the last one unreduced
TimesSmall(limbs, c, carry) ==
  IF limbs = << >> THEN << carry >>
  ELSE LET v == limbs[1] * c + carry
       IN << v % 2^LimbBits >> \o TimesSmall(Tail(limbs), c, v \div 2^LimbBits)

\* d * 1'000'000.0 for a positive double d
DoubleTimesMillion(d) ==
  LET nlimb  == (MantissaBits + LimbBits - 1) \div LimbBits
      padded == [i \in 1..(nlimb * LimbBits - MantissaBits) |-> 0] \o d.man
      limbs  == [j \in 1..nlimb |->
                   BitsToInt(SubSeq(padded, (nlimb - j) * LimbBits + 1, (nlimb - j + 1) * LimbBits))]
      p      == TimesSmall(limbs, MillionOdd, 0)
      low    == [i \in 1..(nlimb * LimbBits) |->
                   (p[nlimb - ((i - 1) \div LimbBits)]
                      \div 2^(LimbBits - 1 - ((i - 1) % LimbBits))) % 2]
      prod   == IntToBits(p[nlimb + 1]) \o low
      extra  == Len(prod) - MantissaBits
      man    == SubSeq(prod, 1, MantissaBits)
      guard  == prod[MantissaBits + 1]
      sticky == \E i \in (MantissaBits + 2)..Len(prod) : prod[i] = 1
  IN RoundNearestEven(d.exp + MillionShift + extra, man, guard, sticky)

DoubleToInt64Rounded(d) ==
  IF d.exp < -1 THEN 0
  ELSE IF d.exp = -1 THEN 1
  ELSE BitsToInt(SubSeq(d.man, 1, d.exp + 1))
         + (IF d.exp + 2 <= Len(d.man) THEN d.man[d.exp + 2] ELSE 0)

\* static_cast<int64_t>(d) for a positive double d: truncation toward zero
DoubleToInt64(d) ==
  IF d.exp < 0 THEN 0 ELSE BitsToInt(SubSeq(d.man, 1, d.exp + 1))

(* ---- pure helpers of CompositorCaptureSessionImpl ---- *)

CalculateBufferSize(cfg) ==
  IF cfg.width <= 0 \/ cfg.height <= 0 THEN 0
  ELSE cfg.width * cfg.height * BytesPerPixel

\* x * 4 in int32_t for x > 0: the low 32 bits of the product, as the signed
\* value the shift the compiler emits for it produces
TimesFourInt32(x) ==
  LET low == x % ((Int32Max \div 2) + 1)
  IN IF low <= Int32Max \div BytesPerPixel
     THEN low * BytesPerPixel
     ELSE (low - (Int32Max \div 2) - 1) * BytesPerPixel

CalculateStride(cfg) ==
  IF cfg.width <= 0 THEN 0 ELSE TimesFourInt32(cfg.width)

MicrosecondsUnchecked(microseconds) == microseconds

\* if (microseconds <= 0) microseconds = 16667;
MicrosecondsOrDefault(microseconds) ==
  IF microseconds <= 0 THEN DefaultIntervalUs ELSE microseconds

CalculateFrameInterval(cfg) ==
  IF cfg.frame_rate_numerator <= 0 \/ cfg.frame_rate_denominator <= 0
  THEN DefaultIntervalUs
  ELSE LET period_seconds == DoubleDivide(cfg.frame_rate_denominator, cfg.frame_rate_numerator)
       IN MicrosecondsOrDefault(DoubleToInt64(DoubleTimesMillion(period_seconds)))


(* ---- derived sets ---- *)

Spawned == {w \in Workers : wpc[w] # "unborn"}
Alive == {w \in Workers : wpc[w] \notin {"unborn", "done"}}
InFlight == {w \in Workers : wpc[w] \in {"read", "write", "call"}}

DtorPcs == {"dtor_joinable", "dtor_join", "dtor_members"}

\* Start calls that have won the compare-and-set so far
CasWins ==
  Cardinality({t \in Threads : pc[t] \in {"start_assign", "start_spawn"}}) + Cardinality(Spawned)

\* thread t is free to enter an entry point of the live session: a caller
\* thread between calls, or a worker thread inside the sink callback.  Caller
\* threads between calls hold no state of their own, so the lowest-numbered
\* one makes the next call.
CanCall(t) ==
  /\ abort = "none"
  /\ session = "live"
  /\ pc[t] = "idle"
  /\ calls < MaxCalls
  /\ \A c \in Callers : pc[c] \notin DtorPcs
  /\ t \in Workers => wpc[t] = "in_cb"
  /\ t \in Callers => \A c \in Callers : c < t => pc[c] # "idle"

Init ==
  /\ session = "none"
  /\ config_ = NoConfig
  /\ callback_ = FALSE
  /\ started_ = FALSE
  /\ running_ = FALSE
  /\ capture_thread_ = NoThread
  /\ staging_buffer_ = 0
  /\ next_frame_token_ = 0
  /\ wpc = [w \in Workers |-> "unborn"]
  /\ reg = [w \in Workers |-> 0]
  /\ frame = [w \in Workers |-> 0]
  /\ interval = [w \in Workers |-> 0]
  /\ stride = [w \in Workers |-> 0]
  /\ pc = [t \in Threads |-> "idle"]
  /\ target = [t \in Threads |-> NoThread]
  /\ abort = "none"
  /\ delivered = << >>
  /\ bufAssigns = 0
  /\ stopFlips = 0
  /\ startedBefore = [t \in Threads |-> {}]
  /\ mustBeDone = {}
  /\ overlapped = {}
  /\ quiesced = TRUE
  /\ signalled = {}
  /\ late = [w \in Workers |-> 0]
  /\ idleStops = 0
  /\ returned = "unset"
  /\ freed_access = FALSE
  /\ released = 0
  /\ browser_host = "automatic"
  /\ now = 0
  /\ monotonic = [w \in Workers |-> 0]
  /\ next_fire = [w \in Workers |-> 0]
  /\ wakes = << >>
  /\ deadlines = << >>
  /\ calls = 0

(* ---- C entry points ---- *)

\* cc_create_session: host, config and callback are TRUE when non-null; the
\* constructor copies the configuration and the sink, leaves its browser_host
\* parameter unused and starts nothing
CreateIgnoresHost(host, config, callback) == ~config \/ ~callback

\* if (host == nullptr || config == nullptr || callback == nullptr)
CreateRefuses(host, config, callback) == ~host \/ ~config \/ ~callback

cc_create_session(host, config, cfg, callback) ==
  /\ abort = "none"
  /\ session = "none"
  /\ IF CreateRefuses(host, config, callback)
     THEN /\ returned' = "null"
          /\ UNCHANGED << session, config_, callback_ >>
     ELSE /\ returned' = "session"
          /\ session' = "live"
          /\ config_' = cfg
          /\ callback_' = callback
  /\ UNCHANGED << started_, running_, capture_thread_, staging_buffer_,
                  next_frame_token_, wpc, reg, frame, interval, stride, pc, target,
                  abort, delivered, bufAssigns, stopFlips, startedBefore,
                  mustBeDone, quiesced, signalled, late, idleStops, overlapped,
                  calls, freed_access, released, browser_host, now, monotonic,
                  next_fire, wakes, deadlines >>

\* what the return of Stop() leaves behind, for the thread t that called it
StopReturns(t) ==
  /\ started_' = FALSE
  /\ pc' = [pc EXCEPT ![t] = "idle"]
  /\ target' = [target EXCEPT ![t] = NoThread]
  /\ wpc' = IF t \in Workers THEN [wpc EXCEPT ![t] = "loop"] ELSE wpc
  /\ quiesced' = IF t \in overlapped THEN quiesced ELSE TRUE
  /\ overlapped' = overlapped \ {t}

StartIgnoresRunning == callback_

\* StartFallbackLoop goes on to start a thread: callback_ is set and
\* running_.compare_exchange_strong(expected = false, true) succeeds
StartWinsCas == callback_ /\ ~running_

\* cc_start_session -> Start -> StartFallbackLoop up to the compare-and-set
cc_start_session(t) ==
  /\ CanCall(t)
  /\ t \in Callers
  /\ quiesced' = FALSE
  /\ overlapped' = {u \in Threads : pc[u] \in {"stop_joinable", "stop_join"}}
  /\ IF StartWinsCas
     THEN /\ running_' = TRUE
          /\ pc' = [pc EXCEPT ![t] = "start_assign"]
          /\ UNCHANGED started_
     ELSE /\ started_' = TRUE
          /\ UNCHANGED << running_, pc >>
  /\ calls' = calls + 1
  /\ UNCHANGED << session, config_, callback_, capture_thread_, staging_buffer_,
                  next_frame_token_, wpc, reg, frame, interval, stride, target,
                  abort, delivered, bufAssigns, stopFlips, startedBefore,
                  mustBeDone, signalled, late, idleStops, returned, freed_access,
                  released, browser_host, now, monotonic, next_fire, wakes,
                  deadlines >>

\* staging_buffer_.assign(CalculateBufferSize(), 0u)
StartFallbackLoop_Assign(t) ==
  /\ abort = "none"
  /\ pc[t] = "start_assign"
  /\ staging_buffer_' = CalculateBufferSize(config_)
  /\ bufAssigns' = bufAssigns + 1
  /\ pc' = [pc EXCEPT ![t] = "start_spawn"]
  /\ UNCHANGED << session, config_, callback_, started_, running_, capture_thread_,
                  next_frame_token_, wpc, reg, frame, interval, stride, target,
                  abort, delivered, stopFlips, startedBefore, mustBeDone, quiesced,
                  signalled, late, idleStops, overlapped, calls, returned,
                  freed_access, released, browser_host, now, monotonic, next_fire,
                  wakes, deadlines >>

\* std::thread([this]() { RunFallbackLoop(); }): the temporary is constructed,
\* and its thread runs, before the move assignment to capture_thread_
StartFallbackLoop_Spawn(t) ==
  /\ abort = "none"
  /\ pc[t] = "start_spawn"
  /\ LET w == Cardinality(Spawned) + 1
     IN /\ wpc' = [wpc EXCEPT ![w] = "entry"]
        /\ target' = [target EXCEPT ![t] = w]
  /\ pc' = [pc EXCEPT ![t] = "start_move"]
  /\ UNCHANGED << session, config_, callback_, started_, running_, capture_thread_,
                  staging_buffer_, next_frame_token_, reg, frame, interval, stride,
                  abort, delivered, bufAssigns, stopFlips, startedBefore,
                  mustBeDone, quiesced, signalled, late, idleStops, overlapped,
                  calls, returned, freed_access, released, browser_host, now,
                  monotonic, next_fire, wakes, deadlines >>

\* capture_thread_ = std::move(temporary): std::terminate when capture_thread_
\* is joinable; then Start() sets started_ and returns
StartFallbackLoop_Move(t) ==
  /\ abort = "none"
  /\ pc[t] = "start_move"
  /\ IF capture_thread_ # NoThread
     THEN /\ abort' = "assign_joinable"
          /\ UNCHANGED << capture_thread_, started_, pc, target >>
     ELSE /\ capture_thread_' = target[t]
          /\ started_' = TRUE
          /\ pc' = [pc EXCEPT ![t] = "idle"]
          /\ target' = [target EXCEPT ![t] = NoThread]
          /\ UNCHANGED abort
  /\ UNCHANGED << session, config_, callback_, running_, staging_buffer_,
                  next_frame_token_, wpc, reg, frame, interval, stride, delivered,
                  bufAssigns, stopFlips, startedBefore, mustBeDone, quiesced,
                  signalled, late, idleStops, overlapped, calls, returned,
                  freed_access, released, browser_host, now, monotonic, next_fire,
                  wakes, deadlines >>

StopAlwaysJoins == TRUE

\* the value running_.exchange(false) returns in StopFallbackLoop
StopWasRunning == running_

\* cc_stop_session -> Stop -> StopFallbackLoop up to running_.exchange(false)
cc_stop_session(t) ==
  /\ CanCall(t)
  /\ IF StopWasRunning
     THEN /\ running_' = FALSE
          /\ pc' = [pc EXCEPT ![t] = "stop_joinable"]
          /\ startedBefore' = [startedBefore EXCEPT ![t] = Spawned]
          /\ signalled' = signalled \cup Alive
          /\ stopFlips' = stopFlips + 1
          /\ UNCHANGED << started_, target, wpc, quiesced, mustBeDone, idleStops, overlapped >>
     ELSE /\ StopReturns(t)
          /\ mustBeDone' = mustBeDone \cup Spawned
          /\ idleStops' = IF quiesced /\ stopFlips > 0 THEN 1 ELSE idleStops
          /\ UNCHANGED << running_, startedBefore, signalled, stopFlips >>
  /\ calls' = calls + 1
  /\ UNCHANGED << session, config_, callback_, capture_thread_, staging_buffer_,
                  next_frame_token_, reg, frame, interval, stride, abort,
                  delivered, bufAssigns, late, returned, freed_access, released,
                  browser_host, now, monotonic, next_fire, wakes, deadlines >>

\* if (capture_thread_.joinable()), in Stop() or in the destructor
StopFallbackLoop_Joinable(t) ==
  /\ abort = "none"
  /\ pc[t] \in {"stop_joinable", "dtor_joinable"}
  /\ IF capture_thread_ # NoThread
     THEN /\ target' = [target EXCEPT ![t] = capture_thread_]
          /\ pc' = [pc EXCEPT ![t] = IF pc[t] = "stop_joinable" THEN "stop_join" ELSE "dtor_join"]
          /\ UNCHANGED << started_, wpc, quiesced, mustBeDone, startedBefore, overlapped >>
     ELSE IF pc[t] = "stop_joinable"
          THEN /\ StopReturns(t)
               /\ mustBeDone' = mustBeDone \cup startedBefore[t]
               /\ startedBefore' = [startedBefore EXCEPT ![t] = {}]
          ELSE /\ pc' = [pc EXCEPT ![t] = "dtor_members"]
               /\ UNCHANGED << started_, target, wpc, quiesced, mustBeDone, startedBefore,
                               overlapped >>
  /\ UNCHANGED << session, config_, callback_, running_, capture_thread_,
                  staging_buffer_, next_frame_token_, reg, frame, interval, stride,
                  abort, delivered, bufAssigns, stopFlips, signalled, late,
                  idleStops, calls, returned, freed_access, released, browser_host,
                  now, monotonic, next_fire, wakes, deadlines >>

JoinLeavesJoinable(handle, joined) == handle

\* the handle after join() has returned: no longer joinable, unless another
\* thread has been stored in it meanwhile
HandleAfterJoin(handle, joined) == IF handle = joined THEN NoThread ELSE handle

\* capture_thread_.join(): throws resource_deadlock_would_occur on the calling
\* thread's own handle (the exception leaves the thread function: terminate);
\* otherwise blocks until the thread has finished and clears the handle.  A
\* handle another join has already cleared is a data race on capture_thread_:
\* the call either returns or throws.
StopFallbackLoop_Join(t) ==
  /\ abort = "none"
  /\ pc[t] \in {"stop_join", "dtor_join"}
  /\ target[t] # t => wpc[target[t]] = "done"
  /\ \E throws \in BOOLEAN :
       /\ throws => (target[t] # t /\ capture_thread_ # target[t])
       /\ IF target[t] = t \/ throws
          THEN /\ abort' = IF target[t] = t THEN "self_join" ELSE "join_race"
               /\ UNCHANGED << capture_thread_, started_, pc, target, wpc, quiesced,
                               mustBeDone, startedBefore, overlapped >>
          ELSE /\ capture_thread_' = HandleAfterJoin(capture_thread_, target[t])
               /\ UNCHANGED abort
               /\ IF pc[t] = "stop_join"
                  THEN /\ StopReturns(t)
                       /\ mustBeDone' = mustBeDone \cup startedBefore[t]
                       /\ startedBefore' = [startedBefore EXCEPT ![t] = {}]
                  ELSE /\ pc' = [pc EXCEPT ![t] = "dtor_members"]
                       /\ target' = [target EXCEPT ![t] = NoThread]
                       /\ UNCHANGED << started_, wpc, quiesced, mustBeDone, startedBefore,
                                       overlapped >>
  /\ UNCHANGED << session, config_, callback_, running_, staging_buffer_,
                  next_frame_token_, reg, frame, interval, stride, delivered,
                  bufAssigns, stopFlips, signalled, late, idleStops, calls,
                  returned, freed_access, released, browser_host, now, monotonic,
                  next_fire, wakes, deadlines >>

\* cc_destroy_session -> delete session -> delete impl_ -> ~Impl(): the
\* StopFallbackLoop() of the destructor up to running_.exchange(false).  The
\* handle is destroyed by one thread while no other call is in progress.
cc_destroy_session(t) ==
  /\ CanCall(t)
  /\ t \in Callers
  /\ \A c \in Callers : pc[c] = "idle"
  /\ IF running_
     THEN /\ running_' = FALSE
          /\ pc' = [pc EXCEPT ![t] = "dtor_joinable"]
          /\ signalled' = signalled \cup Alive
          /\ stopFlips' = stopFlips + 1
     ELSE /\ pc' = [pc EXCEPT ![t] = "dtor_members"]
          /\ UNCHANGED << running_, signalled, stopFlips >>
  /\ calls' = calls + 1
  /\ UNCHANGED << session, config_, callback_, started_, capture_thread_,
                  staging_buffer_, next_frame_token_, wpc, reg, frame, interval,
                  stride, target, abort, delivered, bufAssigns, startedBefore,
                  mustBeDone, quiesced, late, idleStops, overlapped, returned,
                  freed_access, released, browser_host, now, monotonic, next_fire,
                  wakes, deadlines >>

\* the members' destructors: ~std::thread terminates when joinable; the
\* staging vector is freed and the session handle is gone
Destructor_Members(t) ==
  /\ abort = "none"
  /\ pc[t] = "dtor_members"
  /\ IF capture_thread_ # NoThread
     THEN /\ abort' = "dtor_joinable"
          /\ UNCHANGED << session, staging_buffer_, pc, quiesced >>
     ELSE /\ session' = "destroyed"
          /\ staging_buffer_' = 0
          /\ pc' = [pc EXCEPT ![t] = "idle"]
          /\ quiesced' = TRUE
          /\ UNCHANGED abort
  /\ UNCHANGED << config_, callback_, started_, running_, capture_thread_,
                  next_frame_token_, wpc, reg, frame, interval, stride, target,
                  delivered, bufAssigns, stopFlips, startedBefore, mustBeDone,
                  signalled, late, idleStops, overlapped, calls, returned,
                  freed_access, released, browser_host, now, monotonic, next_fire,
                  wakes, deadlines >>

ReleaseFrameFrees(frame_token) == 0

\* ReleaseFrame(uint64_t) has an empty body: the staging buffer it leaves
ReleaseFrame(frame_token) == staging_buffer_

\* the tokens a caller may pass: never issued, delivered, or not yet issued
Tokens == 0..(MaxFrames + 1)

\* cc_release_frame -> ReleaseFrame, from a caller thread or from the sink
cc_release_frame(t, frame_token) ==
  /\ CanCall(t)
  /\ frame_token \in Tokens
  /\ staging_buffer_' = ReleaseFrame(frame_token)
  /\ wpc' = IF t \in Workers THEN [wpc EXCEPT ![t] = "loop"] ELSE wpc
  /\ released' = IF Alive # {} /\ \A i \in 1..Len(delivered) : delivered[i].token # frame_token
                 THEN 1 ELSE released
  /\ calls' = calls + 1
  /\ UNCHANGED << session, config_, callback_, started_, running_, capture_thread_,
                  next_frame_token_, reg, frame, interval, stride, pc, target,
                  abort, delivered, bufAssigns, stopFlips, startedBefore,
                  mustBeDone, overlapped, quiesced, signalled, late, idleStops,
                  returned, freed_access, browser_host, now, monotonic, next_fire,
                  wakes, deadlines >>

EntryPoints == {"cc_start_session", "cc_stop_session", "cc_release_frame", "cc_destroy_session"}

\* a caller thread between calls, whatever has become of the session
CallerIdle(t) ==
  /\ abort = "none"
  /\ t \in Callers
  /\ \A c \in Callers : pc[c] = "idle"
  /\ calls < MaxCalls

\* an entry point called with session == nullptr: the null test returns, and
\* delete of a null pointer does nothing
NullHandleCall(t, entry) ==
  /\ CallerIdle(t)
  /\ entry \in EntryPoints
  /\ calls' = calls + 1
  /\ UNCHANGED << session, config_, callback_, started_, running_, capture_thread_,
                  staging_buffer_, next_frame_token_, wpc, reg, frame, interval,
                  stride, pc, target, abort, delivered, bufAssigns, stopFlips,
                  startedBefore, mustBeDone, overlapped, quiesced, signalled, late,
                  idleStops, returned, freed_access, released, browser_host, now,
                  monotonic, next_fire, wakes, deadlines >>

\* an entry point called with the handle cc_destroy_session has deleted: the
\* pointer is not null, so session->impl_ is read from (or, in
\* cc_destroy_session, the destructor run on) the freed object.  The build
\* either faults there or goes on with whatever the freed memory holds.
FreedHandleCall(t, entry, faults) ==
  /\ CallerIdle(t)
  /\ entry \in EntryPoints
  /\ session = "destroyed"
  /\ freed_access' = TRUE
  /\ abort' = IF faults THEN "use_after_free" ELSE abort
  /\ calls' = calls + 1
  /\ UNCHANGED << session, config_, callback_, started_, running_, capture_thread_,
                  staging_buffer_, next_frame_token_, wpc, reg, frame, interval,
                  stride, pc, target, delivered, bufAssigns, stopFlips,
                  startedBefore, mustBeDone, overlapped, quiesced, signalled, late,
                  idleStops, returned, released, browser_host, now, monotonic,
                  next_fire, wakes, deadlines >>

(* ---- the worker thread: RunFallbackLoop ---- *)

\* const auto interval = ...; const auto stride = ...;
RunFallbackLoop_Entry(w) ==
  /\ abort = "none"
  /\ wpc[w] = "entry"
  /\ interval' = [interval EXCEPT ![w] = CalculateFrameInterval(config_)]
  /\ stride' = [stride EXCEPT ![w] = CalculateStride(config_)]
  /\ wpc' = [wpc EXCEPT ![w] = "loop"]
  /\ UNCHANGED << session, config_, callback_, started_, running_, capture_thread_,
                  staging_buffer_, next_frame_token_, reg, frame, pc, target,
                  abort, delivered, bufAssigns, stopFlips, startedBefore,
                  mustBeDone, quiesced, signalled, late, idleStops, overlapped,
                  calls, returned, freed_access, released, browser_host, now,
                  monotonic, next_fire, wakes, deadlines >>

\* while (running_.load())
RunFallbackLoop_Load(w) ==
  /\ abort = "none"
  /\ wpc[w] = "loop"
  /\ running_ => Len(delivered) + Cardinality(InFlight) < MaxFrames
  /\ wpc' = [wpc EXCEPT ![w] = IF running_ THEN "read" ELSE "done"]
  /\ UNCHANGED << session, config_, callback_, started_, running_, capture_thread_,
                  staging_buffer_, next_frame_token_, reg, frame, interval, stride,
                  pc, target, abort, delivered, bufAssigns, stopFlips,
                  startedBefore, mustBeDone, quiesced, signalled, late, idleStops,
                  overlapped, calls, returned, freed_access, released,
                  browser_host, now, monotonic, next_fire, wakes, deadlines >>

\* ++next_frame_token_ on a plain uint64_t: the read ...
RunFallbackLoop_ReadToken(w) ==
  /\ abort = "none"
  /\ wpc[w] = "read"
  /\ reg' = [reg EXCEPT ![w] = next_frame_token_]
  /\ wpc' = [wpc EXCEPT ![w] = "write"]
  /\ UNCHANGED << session, config_, callback_, started_, running_, capture_thread_,
                  staging_buffer_, next_frame_token_, frame, interval, stride, pc,
                  target, abort, delivered, bufAssigns, stopFlips, startedBefore,
                  mustBeDone, quiesced, signalled, late, idleStops, overlapped,
                  calls, returned, freed_access, released, browser_host, now,
                  monotonic, next_fire, wakes, deadlines >>

PostIncrement(old) == old

\* the value of ++next_frame_token_ given the value read
PreIncrement(old) == old + 1

\* ... and the write, followed by the rest of the frame descriptor
RunFallbackLoop_WriteToken(w) ==
  /\ abort = "none"
  /\ wpc[w] = "write"
  /\ next_frame_token_' = reg[w] + 1
  /\ frame' = [frame EXCEPT ![w] =
                 [frame_token  |-> PreIncrement(reg[w]),
                  pixel_buffer |-> staging_buffer_ # 0,
                  width        |-> config_.width,
                  height       |-> config_.height,
                  stride       |-> stride[w],
                  storage_type |-> "kSystemMemory"]]
  /\ wpc' = [wpc EXCEPT ![w] = "call"]
  /\ UNCHANGED << session, config_, callback_, started_, running_, capture_thread_,
                  staging_buffer_, reg, interval, stride, pc, target, abort,
                  delivered, bufAssigns, stopFlips, startedBefore, mustBeDone,
                  quiesced, signalled, late, idleStops, overlapped, calls,
                  returned, freed_access, released, browser_host, now, monotonic,
                  next_fire, wakes, deadlines >>

\* if (callback_) callback_(&frame, user_data_); else { running_.store(false); break; }
\* followed by sleep_until(next_fire).  The sink either returns, or
\* (reentrant) calls cc_stop_session on the worker's own thread first.
RunFallbackLoop_Callback(w, reentrant) ==
  /\ abort = "none"
  /\ wpc[w] = "call"
  /\ IF callback_
     THEN /\ delivered' = Append(delivered, [token |-> frame[w].frame_token, by |-> w])
          /\ late' = [late EXCEPT ![w] = IF w \in signalled THEN @ + 1 ELSE @]
          /\ wpc' = [wpc EXCEPT ![w] = IF reentrant THEN "in_cb" ELSE "loop"]
          /\ UNCHANGED running_
     ELSE /\ running_' = FALSE
          /\ wpc' = [wpc EXCEPT ![w] = "done"]
          /\ UNCHANGED << delivered, late >>
  /\ UNCHANGED << session, config_, callback_, started_, capture_thread_,
                  staging_buffer_, next_frame_token_, reg, frame, interval, stride,
                  pc, target, abort, bufAssigns, stopFlips, startedBefore,
                  mustBeDone, quiesced, signalled, idleStops, overlapped, calls,
                  returned, freed_access, released, browser_host, now, monotonic,
                  next_fire, wakes, deadlines >>

\* const auto next_fire = monotonic + interval;
NextFire(monotonic_, interval_) == monotonic_ + interval_

\* One whole iteration of the loop of RunFallbackLoop with its clock, for a
\* worker no call interferes with: the clock is read, the frame is built and
\* handed to the sink, which takes `busy` microseconds, and sleep_until
\* returns `oversleep` microseconds after the deadline, or at once when the
\* deadline has passed.
RunFallbackLoop_Iteration(w, busy, oversleep) ==
  /\ abort = "none"
  /\ wpc[w] = "loop"
  /\ \A t \in Callers : pc[t] = "idle"
  /\ running_
  /\ callback_
  /\ Len(delivered) < MaxFrames
  /\ monotonic' = [monotonic EXCEPT ![w] = now]
  /\ next_frame_token_' = next_frame_token_ + 1
  /\ frame' = [frame EXCEPT ![w] =
                 [frame_token  |-> PreIncrement(next_frame_token_),
                  pixel_buffer |-> staging_buffer_ # 0,
                  width        |-> config_.width,
                  height       |-> config_.height,
                  stride       |-> stride[w],
                  storage_type |-> "kSystemMemory"]]
  /\ delivered' = Append(delivered, [token |-> PreIncrement(next_frame_token_), by |-> w])
  /\ LET deadline == NextFire(now, interval[w])
     IN /\ next_fire' = [next_fire EXCEPT ![w] = deadline]
        /\ now' = (IF now + busy > deadline THEN now + busy ELSE deadline + oversleep)
        /\ deadlines' = Append(deadlines, deadline)
  /\ wakes' = Append(wakes, now)
  /\ UNCHANGED << session, config_, callback_, started_, running_, capture_thread_,
                  staging_buffer_, wpc, reg, interval, stride, pc, target, abort,
                  bufAssigns, stopFlips, startedBefore, mustBeDone, overlapped,
                  quiesced, signalled, late, idleStops, returned, freed_access,
                  released, browser_host, calls >>

(* ---- specifications ---- *)

\* any number of caller threads, and sinks that may call Stop
Next ==
  \/ \E host \in BOOLEAN, config \in BOOLEAN, cfg \in {TypicalConfig}, callback \in BOOLEAN :
       cc_create_session(host, config, cfg, callback)
  \/ \E t \in Callers : cc_start_session(t)
  \/ \E t \in Callers : StartFallbackLoop_Assign(t)
  \/ \E t \in Callers : StartFallbackLoop_Spawn(t)
  \/ \E t \in Callers : StartFallbackLoop_Move(t)
  \/ \E t \in Threads : cc_stop_session(t)
  \/ \E t \in Threads : StopFallbackLoop_Joinable(t)
  \/ \E t \in Threads : StopFallbackLoop_Join(t)
  \/ \E t \in Threads, frame_token \in Tokens : cc_release_frame(t, frame_token)
  \/ \E t \in Callers : cc_destroy_session(t)
  \/ \E t \in Callers : Destructor_Members(t)
  \/ \E w \in Workers : RunFallbackLoop_Entry(w)
  \/ \E w \in Workers : RunFallbackLoop_Load(w)
  \/ \E w \in Workers : RunFallbackLoop_ReadToken(w)
  \/ \E w \in Workers : RunFallbackLoop_WriteToken(w)
  \/ \E w \in Workers, reentrant \in BOOLEAN : RunFallbackLoop_Callback(w, reentrant)

Spec == Init /\ [][Next]_vars

\* one caller thread issuing its calls one at a time, with the handle it was
\* given, a null handle or the handle it has destroyed, and sinks that return
SeqCaller == Cardinality(Workers) + 1

NextSeq ==
  \/ \E host \in BOOLEAN, config \in BOOLEAN, cfg \in Configs, callback \in BOOLEAN :
       cc_create_session(host, config, cfg, callback)
  \/ cc_start_session(SeqCaller)
  \/ StartFallbackLoop_Assign(SeqCaller)
  \/ StartFallbackLoop_Spawn(SeqCaller)
  \/ StartFallbackLoop_Move(SeqCaller)
  \/ cc_stop_session(SeqCaller)
  \/ StopFallbackLoop_Joinable(SeqCaller)
  \/ StopFallbackLoop_Join(SeqCaller)
  \/ \E frame_token \in Tokens : cc_release_frame(SeqCaller, frame_token)
  \/ cc_destroy_session(SeqCaller)
  \/ Destructor_Members(SeqCaller)
  \/ \E entry \in EntryPoints : NullHandleCall(SeqCaller, entry)
  \/ \E entry \in EntryPoints, faults \in BOOLEAN : FreedHandleCall(SeqCaller, entry, faults)
  \/ \E w \in Workers : RunFallbackLoop_Entry(w)
  \/ \E w \in Workers : RunFallbackLoop_Load(w)
  \/ \E w \in Workers : RunFallbackLoop_ReadToken(w)
  \/ \E w \in Workers : RunFallbackLoop_WriteToken(w)
  \/ \E w \in Workers : RunFallbackLoop_Callback(w, FALSE)

SpecSeq == Init /\ [][NextSeq]_vars


\* CalculateFrameInterval on its own: a worker thread has just been created
\* for a session with any of the frame rates below, and runs the first
\* statements of RunFallbackLoop
RateNumerators == (-1..MaxRate) \cup {1000000, 2000000}
RateDenominators == -1..MaxRate

InitInterval ==
  /\ session = "live"
  /\ \E n \in RateNumerators, d \in RateDenominators :
       config_ = [width |-> 2, height |-> 1,
                  frame_rate_numerator |-> n, frame_rate_denominator |-> d]
  /\ callback_ = TRUE
  /\ started_ = FALSE
  /\ running_ = TRUE
  /\ capture_thread_ = NoThread
  /\ staging_buffer_ = CalculateBufferSize(config_)
  /\ next_frame_token_ = 0
  /\ wpc = [w \in Workers |-> IF w = 1 THEN "entry" ELSE "unborn"]
  /\ reg = [w \in Workers |-> 0]
  /\ frame = [w \in Workers |-> 0]
  /\ interval = [w \in Workers |-> 0]
  /\ stride = [w \in Workers |-> 0]
  /\ pc = [t \in Threads |-> IF t = SeqCaller THEN "start_move" ELSE "idle"]
  /\ target = [t \in Threads |-> IF t = SeqCaller THEN 1 ELSE NoThread]
  /\ abort = "none"
  /\ delivered = << >>
  /\ bufAssigns = 1
  /\ stopFlips = 0
  /\ startedBefore = [t \in Threads |-> {}]
  /\ mustBeDone = {}
  /\ overlapped = {}
  /\ quiesced = FALSE
  /\ signalled = {}
  /\ late = [w \in Workers |-> 0]
  /\ idleStops = 0
  /\ returned = "session"
  /\ freed_access = FALSE
  /\ released = 0
  /\ browser_host = "automatic"
  /\ now = 0
  /\ monotonic = [w \in Workers |-> 0]
  /\ next_fire = [w \in Workers |-> 0]
  /\ wakes = << >>
  /\ deadlines = << >>
  /\ calls = 1

NextInterval == \E w \in Workers : RunFallbackLoop_Entry(w)

SpecInterval == InitInterval /\ [][NextInterval]_vars

\* The worker's cadence on its own: Start has returned, the worker has
\* computed its interval and no further call is made; the sink returns at once
\* or takes longer than the interval, and sleep_until wakes up to MaxLate
\* microseconds late.
TimedConfigs ==
  {[width |-> 2, height |-> 1, frame_rate_numerator |-> n, frame_rate_denominator |-> 1] :
     n \in {0, 30, 60}}

InitTiming ==
  /\ session = "live"
  /\ config_ \in TimedConfigs
  /\ callback_ = TRUE
  /\ started_ = TRUE
  /\ running_ = TRUE
  /\ capture_thread_ = 1
  /\ staging_buffer_ = CalculateBufferSize(config_)
  /\ next_frame_token_ = 0
  /\ wpc = [w \in Workers |-> IF w = 1 THEN "loop" ELSE "unborn"]
  /\ reg = [w \in Workers |-> 0]
  /\ frame = [w \in Workers |-> 0]
  /\ interval = [w \in Workers |-> IF w = 1 THEN CalculateFrameInterval(config_) ELSE 0]
  /\ stride = [w \in Workers |-> IF w = 1 THEN CalculateStride(config_) ELSE 0]
  /\ pc = [t \in Threads |-> "idle"]
  /\ target = [t \in Threads |-> NoThread]
  /\ abort = "none"
  /\ delivered = << >>
  /\ bufAssigns = 1
  /\ stopFlips = 0
  /\ startedBefore = [t \in Threads |-> {}]
  /\ mustBeDone = {}
  /\ overlapped = {}
  /\ quiesced = FALSE
  /\ signalled = {}
  /\ late = [w \in Workers |-> 0]
  /\ idleStops = 0
  /\ returned = "session"
  /\ freed_access = FALSE
  /\ released = 0
  /\ browser_host = "automatic"
  /\ now \in {0, 1000}
  /\ monotonic = [w \in Workers |-> 0]
  /\ next_fire = [w \in Workers |-> 0]
  /\ wakes = << >>
  /\ deadlines = << >>
  /\ calls = 1

NextTiming ==
  \E w \in Workers, long \in BOOLEAN, oversleep \in 0..MaxLate :
    RunFallbackLoop_Iteration(w, IF long THEN 2 * interval[w] ELSE 0, oversleep)

SpecTiming == InitTiming /\ [][NextTiming]_vars

(***************************************************************************)
(* Properties                                                              *)
(***************************************************************************)

\* C1: no Stop call has returned while a worker thread that was created
\* before that call began is still executing RunFallbackLoop.
C1_StopReturnsAfterWorkerExit ==
  \A w \in mustBeDone : wpc[w] = "done"

\* C2: Start calls without an intervening Stop create one worker thread: the
\* Start calls that won the compare-and-set, the staging buffer assignments
\* and the threads created each number at most one more than the Stop calls
\* that cleared the running flag, and a Start call made while the flag is set
\* returns at once without touching the buffer, the handle or the threads.
C2_OneWorkerPerStart ==
  /\ [](/\ CasWins <= stopFlips + 1
        /\ bufAssigns <= stopFlips + 1
        /\ Cardinality(Spawned) <= stopFlips + 1)
  /\ [][\A t \in Callers :
          (running_ /\ cc_start_session(t)) =>
             /\ pc'[t] = "idle"
             /\ UNCHANGED << running_, staging_buffer_, bufAssigns, capture_thread_, wpc >>]_vars

\* a second Start has returned (setting started_) while the first, which won
\* the compare-and-set, is still about to store its one thread
C2_Witness ==
  /\ stopFlips = 0
  /\ started_
  /\ \E t \in Callers : pc[t] = "start_move"
  /\ Cardinality(Spawned) = 1
  /\ bufAssigns = 1

\* C3: at most one worker thread is alive at any time, and Start never
\* move-assigns a new thread to a capture_thread_ that is still joinable.
C3_SingleWorkerNoAbort ==
  /\ Cardinality(Alive) <= 1
  /\ abort # "assign_joinable"

\* C4: over the lifetime of the session the i-th frame handed to the sink
\* carries token i: unique, increasing by one, starting at 1.
C4_TokensCountDeliveries ==
  \A i \in 1..Len(delivered) : delivered[i].token = i

\* the tokens a run's worker thread has handed to the sink, in order
TokensOfRun(w) ==
  LET idx == {i \in 1..Len(delivered) : delivered[i].by = w}
      nth(k) == CHOOSE i \in idx : Cardinality({j \in idx : j <= i}) = k
  IN [k \in 1..Cardinality(idx) |-> delivered[nth(k)].token]

C6_SinkOnlyWhileStarted ==
  [][Len(delivered') > Len(delivered) => ~quiesced]_vars

\* C7: a worker hands at most one more frame to the sink after a Stop has
\* cleared the running flag, and none once it has left its loop.
C7_AtMostOneLateFrame ==
  /\ [](\A w \in Workers : late[w] <= 1)
  /\ [][\A w \in Workers : wpc[w] = "done" =>
          /\ wpc'[w] = "done"
          /\ Len(TokensOfRun(w)') = Len(TokensOfRun(w))]_vars

\* C8: no Stop call joins the thread it is running on, so a Stop called from
\* inside the sink callback returns like any other.
C8_StopNeverJoinsItself ==
  /\ \A t \in Threads : ~(pc[t] = "stop_join" /\ target[t] = t)
  /\ abort # "self_join"

\* C9: a Stop call on a session that is already stopped (never started, or
\* stopped by a Stop that has returned) returns at once: no join, and the
\* running flag, the thread handle, the token counter, the staging buffer and
\* the worker threads are as before.
C9_StopOnStoppedIsNoOp ==
  [][\A t \in Threads :
       (quiesced /\ cc_stop_session(t)) =>
          /\ pc'[t] = "idle"
          /\ ~running_ /\ ~running_'
          /\ UNCHANGED << capture_thread_, next_frame_token_, staging_buffer_,
                          bufAssigns, delivered, stopFlips >>
          /\ \A w \in Workers \ {t} : wpc'[w] = wpc[w]]_vars

\* such a call has been made, after an earlier Stop had stopped the worker
\* and returned
C9_Witness ==
  /\ idleStops = 1
  /\ session = "live"
  /\ Spawned # {}
  /\ Alive = {}
  /\ capture_thread_ = NoThread

\* integer references for CalculateFrameInterval
MicrosFloor(cfg) == (cfg.frame_rate_denominator * 1000000) \div cfg.frame_rate_numerator
MicrosExact(cfg) == (cfg.frame_rate_denominator * 1000000) % cfg.frame_rate_numerator = 0
MicrosRound(cfg) ==
  (2 * cfg.frame_rate_denominator * 1000000 + cfg.frame_rate_numerator)
     \div (2 * cfg.frame_rate_numerator)
OrDefault(us) == IF us <= 0 THEN DefaultIntervalUs ELSE us

Computed == {w \in Workers : wpc[w] \notin {"unborn", "entry"}}

\* C10 (as claimed): the interval is round(denominator / numerator * 10^6)
\* for positive components and 16667 otherwise.
C10_IntervalIsRounded ==
  \A w \in Computed :
    interval[w] = IF config_.frame_rate_numerator <= 0 \/ config_.frame_rate_denominator <= 0
                  THEN DefaultIntervalUs
                  ELSE MicrosRound(config_)

\* C10 (amended): for positive components the interval is the double product
\* truncated toward zero: floor(denominator * 10^6 / numerator), or one less
\* when that quotient is an integer the double product falls short of, and
\* 16667 in place of 0; for a non-positive component it is 16667.
C10_IntervalIsTruncated ==
  \A w \in Computed :
    IF config_.frame_rate_numerator <= 0 \/ config_.frame_rate_denominator <= 0
    THEN interval[w] = DefaultIntervalUs
    ELSE \/ interval[w] = OrDefault(MicrosFloor(config_))
         \/ /\ MicrosExact(config_)
            /\ interval[w] = OrDefault(MicrosFloor(config_) - 1)

C10_Witness ==
  /\ config_.frame_rate_numerator = 3
  /\ config_.frame_rate_denominator = 2
  /\ 1 \in Computed
  /\ interval[1] = 666666

\* C11: the interval is strictly positive for every pair of components, and
\* positive components whose exact period is below one microsecond (such as
\* 2'000'000 / 1) give the default 16667.
C11_IntervalIsPositive ==
  \A w \in Computed :
    /\ interval[w] > 0
    /\ (/\ config_.frame_rate_numerator > 0
        /\ config_.frame_rate_denominator > 0
        /\ config_.frame_rate_denominator * 1000000 < config_.frame_rate_numerator)
         => interval[w] = DefaultIntervalUs

C11_Witness ==
  /\ config_.frame_rate_numerator = 2000000
  /\ config_.frame_rate_denominator = 1
  /\ 1 \in Computed
  /\ interval[1] = DefaultIntervalUs

\* C12: cc_create_session returns null and creates nothing (no session, no
\* thread, no buffer) when the host, the configuration or the sink is null;
\* otherwise it returns a session that is stopped with no worker thread.
C12_CreateNullOrStopped ==
  [][\A host \in BOOLEAN, config \in BOOLEAN, callback \in BOOLEAN, cfg \in Configs :
       cc_create_session(host, config, cfg, callback) =>
          IF host /\ config /\ callback
          THEN /\ returned' = "session" /\ session' = "live"
               /\ callback_' /\ config_' = cfg
               /\ ~started_' /\ ~running_' /\ capture_thread_' = NoThread
               /\ Spawned' = {} /\ delivered' = << >>
          ELSE /\ returned' = "null" /\ session' = "none"
               /\ ~callback_' /\ config_' = NoConfig
               /\ ~started_' /\ ~running_' /\ capture_thread_' = NoThread
               /\ Spawned' = {} /\ staging_buffer_' = 0]_vars

\* a creation has been refused, and nothing exists
C12_Witness ==
  /\ returned = "null"
  /\ session = "none"
  /\ Spawned = {}
  /\ staging_buffer_ = 0

\* C13: an entry point called with a null handle, or with a handle already
\* passed to cc_destroy_session, is a no-op: it changes no state, starts or
\* stops no thread, ends the process in no fault and touches no freed object.
C13_NullOrDestroyedHandleIsNoOp ==
  [][\A t \in Callers, entry \in EntryPoints :
       (NullHandleCall(t, entry) \/ \E faults \in BOOLEAN : FreedHandleCall(t, entry, faults)) =>
          /\ UNCHANGED << session, started_, running_, capture_thread_, staging_buffer_,
                          next_frame_token_, wpc, delivered, abort >>
          /\ ~freed_access']_vars

\* C14: ReleaseFrame with any token, in any state of the session and while
\* the worker produces frames, does not fault and changes nothing: the
\* running flag, the token counter, the staging buffer, the thread handle,
\* the frames delivered and every other thread are as before.
C14_ReleaseFrameChangesNothing ==
  [][\A t \in Threads, frame_token \in Tokens :
       cc_release_frame(t, frame_token) =>
          /\ abort' = "none"
          /\ pc'[t] = "idle"
          /\ UNCHANGED << session, started_, running_, next_frame_token_, staging_buffer_,
                          capture_thread_, delivered, bufAssigns, stopFlips, pc >>
          /\ \A w \in Workers \ {t} : wpc'[w] = wpc[w]]_vars

\* a token that was not delivered has been released while the worker runs
C14_Witness ==
  /\ released = 1
  /\ running_
  /\ Alive # {}
  /\ staging_buffer_ # 0
  /\ delivered # << >>

\* C15: the host's automatic frame production is disabled while the session
\* exists, and enabled, as before Create, before it exists and once it has
\* been destroyed.
C15_HostCadenceFollowsSession ==
  /\ session = "live" => browser_host = "manual"
  /\ session \in {"none", "destroyed"} => browser_host = "automatic"

\* C16: every frame handed to the sink has storage kind SystemMemory, the
\* configured width and height, and stride = width * 4 when width > 0, which
\* does not overflow int32; a non-positive width or height gives an empty
\* staging buffer, a null buffer pointer and a zero stride.
C16_FrameMatchesConfig ==
  \A w \in Workers :
    wpc[w] = "call" =>
      /\ frame[w].storage_type = "kSystemMemory"
      /\ frame[w].width = config_.width
      /\ frame[w].height = config_.height
      /\ config_.width > 0 =>
            /\ config_.width <= Int32Max \div BytesPerPixel
            /\ frame[w].stride = config_.width * BytesPerPixel
      /\ (config_.width <= 0 \/ config_.height <= 0) =>
            /\ staging_buffer_ = 0
            /\ ~frame[w].pixel_buffer
            /\ frame[w].stride = 0

\* C18: drift does not accumulate: the deadline of the k-th iteration is the
\* first wake time plus k intervals, however late the worker woke and however
\* long the sink took in the iterations before.
C18_DeadlinesDoNotDrift ==
  \A k \in 1..Len(deadlines) : deadlines[k] = wakes[1] + k * interval[1]

\* C19: the staging buffer is assigned only while no worker thread is alive,
\* and it keeps its size from the moment a worker is created until no worker
\* is alive.
C19_BufferAssignedWithoutWorker ==
  [][/\ bufAssigns' > bufAssigns => Alive = {}
     /\ (Alive # {} /\ Alive' # {}) => staging_buffer_' = staging_buffer_]_vars

\* C20: with calls issued one at a time, between calls the thread handle is
\* joinable exactly while the running flag is set, and neither a Start nor
\* the destructor ever finds a joinable handle it would abort on.
C20_JoinableIffRunning ==
  /\ abort \notin {"assign_joinable", "dtor_joinable"}
  /\ (session = "live" /\ pc[SeqCaller] = "idle") =>
        ((capture_thread_ # NoThread) <=> running_)
  /\ session = "destroyed" => (capture_thread_ = NoThread /\ ~running_)

\* the second Start has stored its thread in the handle the Stop before it
\* had joined and cleared
C20_Witness ==
  /\ session = "live"
  /\ pc[SeqCaller] = "idle"
  /\ running_
  /\ capture_thread_ = 2
  /\ wpc[1] = "done"
  /\ stopFlips = 1

====
